---- MODULE Spec2Model ----
(***************************************************************************)
(* Dynamic-Reco: the reconciliation engine (reconcileFiles) of              *)
(* src/services/reconciliationService.ts as a state machine.               *)
(*                                                                         *)
(* Strings are sequences of one-character strings, so that trim,           *)
(* toUpperCase, the name simplification and the key concatenation are      *)
(* computed character by character.  Input records are identified by       *)
(* their position in dataA / dataB (the JavaScript object identity): an     *)
(* outcome holds the position of its dataA and dataB, 0 when absent.       *)
(* Taxable values are exact decimals counted in units of 0.0001; binary    *)
(* floating-point rounding is not modelled.  Dates are milliseconds.       *)
(***************************************************************************)
EXTENDS Integers, Sequences, FiniteSets, TLC

VARIABLES dataA, dataB, mapB, results, unmatchedA, unmatchedB,
          unmatchedBIndexes, finalUnmatchedA, idx, pc

\* ingestion (excelService.ts): the rows read from each file and the map of
\* aggregateInvoiceData
VARIABLES rawData, aggregationMap

\* the App component: the state hooks of the two file slots, the mapping
\* modal, and the calls of handleFileSelect and handleMappingConfirm that
\* are waiting for their request
VARIABLES file, fileStatus, fileData, mappingState, selectCalls,
          confirmCalls

vars == <<dataA, dataB, mapB, results, unmatchedA, unmatchedB,
          unmatchedBIndexes, finalUnmatchedA, idx, pc,
          rawData, aggregationMap,
          file, fileStatus, fileData, mappingState, selectCalls,
          confirmCalls>>

ingestVars == <<rawData, aggregationMap>>

appVars == <<file, fileStatus, fileData, mappingState, selectCalls,
             confirmCalls>>

FileKeys == {"A", "B"}

\* nothing has been read
NoIngest ==
  /\ rawData = [k \in FileKeys |-> <<>>]
  /\ aggregationMap = <<>>

\* the initial values of the hooks of App; no file is 0, no fileKey "null"
NoApp ==
  /\ file = [k \in FileKeys |-> 0]
  /\ fileStatus = [k \in FileKeys |-> "idle"]
  /\ fileData = [k \in FileKeys |-> 0]
  /\ mappingState = [isOpen |-> FALSE, fileKey |-> "null", file |-> 0]
  /\ selectCalls = {}
  /\ confirmCalls = {}

(***************************************************************************)
(* Bounds of the model.                                                    *)
(***************************************************************************)
MaxA == 2

MaxRecords == 4

(***************************************************************************)
(* String primitives of the JavaScript runtime.                            *)
(***************************************************************************)
LetterPairs ==
  { <<"a","A">>, <<"c","C">>, <<"d","D">>, <<"e","E">>, <<"f","F">>,
    <<"g","G">>, <<"h","H">>, <<"i","I">>, <<"j","J">>, <<"k","K">>,
    <<"m","M">>, <<"o","O">>, <<"u","U">>, <<"y","Y">>, <<"z","Z">> }

UpperChar(c) ==
  IF \E p \in LetterPairs : p[1] = c
  THEN (CHOOSE p \in LetterPairs : p[1] = c)[2]
  ELSE c

LowerChar(c) ==
  IF \E p \in LetterPairs : p[2] = c
  THEN (CHOOSE p \in LetterPairs : p[2] = c)[1]
  ELSE c

toUpperCase(s) == [k \in 1..Len(s) |-> UpperChar(s[k])]

toLowerCase(s) == [k \in 1..Len(s) |-> LowerChar(s[k])]

WhiteSpace == {" "}

trim(s) ==
  LET keep == {k \in 1..Len(s) : s[k] \notin WhiteSpace}
      lo == CHOOSE k \in keep : \A m \in keep : k <= m
      hi == CHOOSE k \in keep : \A m \in keep : k >= m
  IN IF keep = {} THEN <<>> ELSE SubSeq(s, lo, hi)

includes(s, t) ==
  \E k \in 0..(Len(s) - Len(t)) : SubSeq(s, k + 1, k + Len(t)) = t

Abs(x) == IF x < 0 THEN -x ELSE x

(***************************************************************************)
(* Dates.  An 'Invoice date' is undefined, null, a value that does not     *)
(* parse (new Date(v).getTime() is NaN), or a value that parses to t ms.   *)
(***************************************************************************)
DateUndefined == [k |-> "undefined", t |-> 0]

DateNull == [k |-> "null", t |-> 0]

DateInvalid == [k |-> "invalid", t |-> 0]

DateAt(t) == [k |-> "date", t |-> t]

MsPerDay == 86400000

\* new Date(d).getTime(): NaN is modelled as isNaN = TRUE; new Date(null) is
\* the epoch, new Date(undefined) is an Invalid Date.
isNaNDate(d) == d.k \in {"undefined", "invalid"}

getTime(d) == IF d.k = "date" THEN d.t ELSE 0

\* Math.ceil(x / MsPerDay) for x >= 0
CeilDays(x) == (x + MsPerDay - 1) \div MsPerDay

\* Date.prototype.toDateString(): the calendar day (UTC taken as the local
\* zone), or the text "Invalid Date".
toDateString(d) ==
  IF isNaNDate(d) THEN <<"Invalid Date", 0>>
  ELSE <<"day", getTime(d) \div MsPerDay>>

(***************************************************************************)
(* reconciliationService.ts: the pure helpers.                             *)
(***************************************************************************)
NormField(s) == toUpperCase(trim(s))

\* a key built from the raw fields, without trim and toUpperCase
createKeyRaw(item) == item.GSTIN \o <<"-">> \o item.inv

createKey(item) ==
  NormField(item.GSTIN) \o <<"-">> \o NormField(item.inv)

DaysTolerance == 7

\* a closeness test that reads a missing or unparseable date as the epoch
areDatesCloseEpoch(dateA, dateB) ==
  CeilDays(Abs(getTime(dateB) - getTime(dateA))) <= DaysTolerance

areDatesClose(dateA, dateB) ==
  IF dateA.k \in {"null", "undefined"} \/ dateB.k \in {"null", "undefined"}
  THEN FALSE
  ELSE IF isNaNDate(dateA) \/ isNaNDate(dateB)
  THEN FALSE
  ELSE CeilDays(Abs(getTime(dateB) - getTime(dateA))) <= DaysTolerance

\* 1.0 in units of 0.0001
ValueTolerance == 10000

areValuesClose(valA, valB) == Abs(valA - valB) <= ValueTolerance

\* 0.001 in units of 0.0001
ValueEpsilon == 10

areValuesEqual(valA, valB) == Abs(valA - valB) < ValueEpsilon

Punctuation == {" ", ".", ",", "-"}

simplify(s) == SelectSeq(toLowerCase(s), LAMBDA c : c \notin Punctuation)

areNamesSimilar(nameA, nameB) ==
  IF nameA = <<>> \/ nameB = <<>> THEN FALSE
  ELSE IF simplify(nameA) = <<>> \/ simplify(nameB) = <<>> THEN FALSE
  ELSE \/ includes(simplify(nameA), simplify(nameB))
       \/ includes(simplify(nameB), simplify(nameA))

\* getDiffs comparing the taxable values with !== instead of the epsilon
getDiffsExact(itemA, itemB) ==
     (IF NormField(itemA.GSTIN) # NormField(itemB.GSTIN)
      THEN <<"GSTIN">> ELSE <<>>)
  \o (IF NormField(itemA.inv) # NormField(itemB.inv)
      THEN <<"Invoice no.">> ELSE <<>>)
  \o (IF ~areNamesSimilar(itemA.Name, itemB.Name)
      THEN <<"Name">> ELSE <<>>)
  \o (IF toDateString(itemA.date) # toDateString(itemB.date)
      THEN <<"Invoice date">> ELSE <<>>)
  \o (IF itemA.value # itemB.value
      THEN <<"taxable value">> ELSE <<>>)

getDiffs(itemA, itemB) ==
     (IF NormField(itemA.GSTIN) # NormField(itemB.GSTIN)
      THEN <<"GSTIN">> ELSE <<>>)
  \o (IF NormField(itemA.inv) # NormField(itemB.inv)
      THEN <<"Invoice no.">> ELSE <<>>)
  \o (IF ~areNamesSimilar(itemA.Name, itemB.Name)
      THEN <<"Name">> ELSE <<>>)
  \o (IF toDateString(itemA.date) # toDateString(itemB.date)
      THEN <<"Invoice date">> ELSE <<>>)
  \o (IF ~areValuesEqual(itemA.value, itemB.value)
      THEN <<"taxable value">> ELSE <<>>)

(***************************************************************************)
(* Input records.  A record is [GSTIN, Name, inv, date, value], inv being  *)
(* the 'Invoice no.' field and value the 'taxable value' field.            *)
(***************************************************************************)
Rec(g, n, i, d, v) ==
  [GSTIN |-> g, Name |-> n, inv |-> i, date |-> d, value |-> v]

\* "Acme", invoice G1-I1 written with blanks and in lower case
RecAcme ==
  Rec(<<" ","g","1">>, <<"A","c","m","e">>, <<"i","1"," ">>,
      DateAt(0), 1000000)

\* same key as RecAcme, another name, value within 0.001 of RecAcme's
RecZed ==
  Rec(<<"G","1">>, <<"Z","e","d">>, <<"I","1">>, DateAt(0), 1000005)

\* same key as RecAcme, value 5.00 higher, unparseable date
RecDrift ==
  Rec(<<"G","1">>, <<"A","C","M","E"," ","C","o",".">>, <<"I","1">>,
      DateInvalid, 1050000)

\* same GSTIN, another invoice, similar name, value and date far away
RecFar ==
  Rec(<<"G","1">>, <<"a","c","m","e"," ","c","o">>, <<"I","2">>,
      DateAt(20 * MsPerDay), 2000000)

\* same GSTIN, another invoice, value 1.00 and date 7 days from RecAcme's
RecNear ==
  Rec(<<"g","1">>, <<"A","c","m","e">>, <<"I","3">>,
      DateAt(7 * MsPerDay), 1010000)

\* another GSTIN, otherwise RecAcme
RecOther ==
  Rec(<<"G","2">>, <<"A","c","m","e">>, <<"I","1">>, DateAt(0), 1000000)

\* GSTIN and invoice number both empty after trimming
RecEmpty ==
  Rec(<<>>, <<>>, <<" ">>, DateUndefined, 0)

\* empty GSTIN with an invoice number, null date
RecNoGstin ==
  Rec(<<" ">>, <<"Z","e","d"," ","C","o">>, <<"i","1">>, DateNull, 1000000)

Records ==
  {RecAcme, RecZed, RecDrift, RecFar, RecNear, RecOther, RecEmpty,
   RecNoGstin}

(***************************************************************************)
(* The Map mapB: its entries in insertion order.  set on a present key     *)
(* replaces the value and keeps the entry's place; delete removes it.      *)
(***************************************************************************)
MapHas(m, key) == \E k \in 1..Len(m) : m[k].key = key

MapGet(m, key) == m[CHOOSE k \in 1..Len(m) : m[k].key = key].b

\* a lookup in which the first record of a key stays
MapSetKeepFirst(m, key, b) ==
  IF MapHas(m, key) THEN m ELSE Append(m, [key |-> key, b |-> b])

MapSet(m, key, b) ==
  IF MapHas(m, key)
  THEN [k \in 1..Len(m) |->
          IF m[k].key = key THEN [key |-> key, b |-> b] ELSE m[k]]
  ELSE Append(m, [key |-> key, b |-> b])

\* a lookup that forgets to delete the consumed key
MapDeleteForgotten(m, key) == m

MapDelete(m, key) == SelectSeq(m, LAMBDA e : e.key # key)

MapValues(m) == [k \in 1..Len(m) |-> m[k].b]

\* key && key !== '-'
KeyIsValid(key) == key # <<>> /\ key # <<"-">>

(***************************************************************************)
(* Outcomes (ReconciliationResult).  a and b are positions in dataA and    *)
(* dataB, 0 for an absent record; matchConfidence is "none" when absent;   *)
(* hasDiffs is FALSE when diffs is undefined.                              *)
(***************************************************************************)
MATCH == "Match"

PARTIALLY_MATCHED == "Partially Matched"

\* the enum member carrying the label its name suggests
NOT_IN_B_Inverted == "In File B only"

NOT_IN_B == "In File A only"

NOT_IN_A == "In File B only"

Outcome(key, a, b, remark, conf, hasDiffs, diffs) ==
  [key |-> key, a |-> a, b |-> b, remark |-> remark,
   matchConfidence |-> conf, hasDiffs |-> hasDiffs, diffs |-> diffs]

\* the ternary of line 92 with its branches swapped
Pass1RemarkSwapped(valuesMatch) ==
  IF valuesMatch THEN PARTIALLY_MATCHED ELSE MATCH

\* line 92 ignoring the value comparison
Pass1RemarkAlwaysMatch(valuesMatch) == MATCH

Pass1Remark(valuesMatch) ==
  IF valuesMatch THEN MATCH ELSE PARTIALLY_MATCHED

Init ==
  /\ \E la \in 0..MaxA : \E lb \in 0..(MaxRecords - la) :
        /\ dataA \in [1..la -> Records]
        /\ dataB \in [1..lb -> Records]
  /\ mapB = <<>>
  /\ results = <<>>
  /\ unmatchedA = <<>>
  /\ unmatchedB = <<>>
  /\ unmatchedBIndexes = {}
  /\ finalUnmatchedA = <<>>
  /\ NoIngest
  /\ NoApp
  /\ idx = 1
  /\ pc = "mapB"

\* dataB.forEach(item => ...) of lines 69-74, one item
BuildMapB ==
  /\ pc = "mapB"
  /\ idx <= Len(dataB)
  /\ LET key == createKey(dataB[idx])
     IN mapB' = IF KeyIsValid(key) THEN MapSet(mapB, key, idx) ELSE mapB
  /\ idx' = idx + 1
  /\ UNCHANGED <<ingestVars, appVars>>
  /\ UNCHANGED <<dataA, dataB, results, unmatchedA, unmatchedB,
                 unmatchedBIndexes, finalUnmatchedA, pc>>

\* const unmatchedA = [] of line 77
StartPass1 ==
  /\ pc = "mapB"
  /\ idx > Len(dataB)
  /\ unmatchedA' = <<>>
  /\ idx' = 1
  /\ pc' = "pass1"
  /\ UNCHANGED <<ingestVars, appVars>>
  /\ UNCHANGED <<dataA, dataB, mapB, results, unmatchedB,
                 unmatchedBIndexes, finalUnmatchedA>>

\* dataA.forEach(itemA => ...) of lines 78-101, one item
Pass1Step ==
  /\ pc = "pass1"
  /\ idx <= Len(dataA)
  /\ LET itemA == dataA[idx]
         key == createKey(itemA)
     IN IF ~KeyIsValid(key)
        THEN UNCHANGED <<results, mapB, unmatchedA>>
        ELSE IF MapHas(mapB, key)
        THEN LET b == MapGet(mapB, key)
                 itemB == dataB[b]
                 valuesMatch == areValuesEqual(itemA.value, itemB.value)
                 allDiffs == getDiffs(itemA, itemB)
             IN /\ results' = Append(results,
                      Outcome(key, idx, b, Pass1Remark(valuesMatch), "High",
                              Len(allDiffs) > 0, allDiffs))
                /\ mapB' = MapDelete(mapB, key)
                /\ UNCHANGED unmatchedA
        ELSE /\ unmatchedA' = Append(unmatchedA, idx)
             /\ UNCHANGED <<results, mapB>>
  /\ idx' = idx + 1
  /\ UNCHANGED <<ingestVars, appVars>>
  /\ UNCHANGED <<dataA, dataB, unmatchedB, unmatchedBIndexes,
                 finalUnmatchedA, pc>>

\* lines 103-107: the pools of the second pass
CollectUnmatchedB ==
  /\ pc = "pass1"
  /\ idx > Len(dataA)
  /\ unmatchedB' = MapValues(mapB)
  /\ finalUnmatchedA' = <<>>
  /\ unmatchedBIndexes' = 1..Len(mapB)
  /\ idx' = 1
  /\ pc' = "pass2"
  /\ UNCHANGED <<ingestVars, appVars>>
  /\ UNCHANGED <<dataA, dataB, mapB, results, unmatchedA>>

(***************************************************************************)
(* The second pass: the scan of lines 112-137 over the available           *)
(* positions of unmatchedB, in the Set's iteration order (ascending: the   *)
(* Set is filled with 0..n-1 in order and only ever deleted from).         *)
(***************************************************************************)
\* the scan without the prerequisite of line 116
GstinPrerequisiteSkipped(itemA, itemB) == TRUE

\* line 116: the candidate is skipped unless the GSTINs agree
GstinPrerequisite(itemA, itemB) ==
  NormField(itemA.GSTIN) = NormField(itemB.GSTIN)

\* a score in which a similar name counts 1, like the other two signals
ScoreNameOne(namesSimilar, valuesClose, datesClose) ==
    (IF namesSimilar THEN 1 ELSE 0)
  + (IF valuesClose THEN 1 ELSE 0)
  + (IF datesClose THEN 1 ELSE 0)

\* lines 125-128
Score(namesSimilar, valuesClose, datesClose) ==
    (IF namesSimilar THEN 2 ELSE 0)
  + (IF valuesClose THEN 1 ELSE 0)
  + (IF datesClose THEN 1 ELSE 0)

currentScore(itemA, itemB) ==
  Score(areNamesSimilar(itemA.Name, itemB.Name),
        areValuesClose(itemA.value, itemB.value),
        areDatesClose(itemA.date, itemB.date))

\* line 132
MinScore == 2

\* line 133 with the comparison turned round
ReplacesBestLower(score, best) == best.index = 0 \/ score < best.score

\* line 133: bestMatch is null (index 0) or has a lower score
ReplacesBest(score, best) == best.index = 0 \/ score > best.score

NoMatch == [index |-> 0, score |-> 0]

\* the positions of a set of indexes in ascending order
RECURSIVE Ascending(_)
Ascending(S) ==
  IF S = {} THEN <<>>
  ELSE LET lo == CHOOSE x \in S : \A y \in S : x <= y
       IN <<lo>> \o Ascending(S \ {lo})

RECURSIVE Scan(_, _, _, _, _)
Scan(itemA, B, pool, order, best) ==
  IF order = <<>> THEN best
  ELSE LET i == Head(order)
           itemB == B[pool[i]]
           score == currentScore(itemA, itemB)
           next == IF /\ GstinPrerequisite(itemA, itemB)
                      /\ score >= MinScore
                      /\ ReplacesBest(score, best)
                   THEN [index |-> i, score |-> score]
                   ELSE best
       IN Scan(itemA, B, pool, Tail(order), next)

bestMatchOf(itemA, B, pool, available) ==
  Scan(itemA, B, pool, Ascending(available), NoMatch)

FuzzyKey(itemA, itemB) ==
  <<"f","u","z","z","y","-">> \o createKey(itemA) \o <<"-">> \o createKey(itemB)

\* unmatchedA.forEach(itemA => ...) of lines 109-154, one item
Pass2Step ==
  /\ pc = "pass2"
  /\ idx <= Len(unmatchedA)
  /\ LET a == unmatchedA[idx]
         itemA == dataA[a]
         bestMatch == bestMatchOf(itemA, dataB, unmatchedB, unmatchedBIndexes)
     IN IF bestMatch.index # 0
        THEN LET b == unmatchedB[bestMatch.index]
             IN /\ results' = Append(results,
                      Outcome(FuzzyKey(itemA, dataB[b]), a, b,
                              PARTIALLY_MATCHED, "Low", TRUE,
                              getDiffs(itemA, dataB[b])))
                /\ unmatchedBIndexes' = unmatchedBIndexes \ {bestMatch.index}
                /\ UNCHANGED finalUnmatchedA
        ELSE /\ finalUnmatchedA' = Append(finalUnmatchedA, a)
             /\ UNCHANGED <<results, unmatchedBIndexes>>
  /\ idx' = idx + 1
  /\ UNCHANGED <<ingestVars, appVars>>
  /\ UNCHANGED <<dataA, dataB, mapB, unmatchedA, unmatchedB, pc>>

\* line 156
finalUnmatchedB ==
  LET order == Ascending(unmatchedBIndexes)
  IN [k \in 1..Len(order) |-> unmatchedB[order[k]]]

\* the two loops of lines 159-165 in the other order
Pass3Swapped ==
  /\ pc = "pass2"
  /\ idx > Len(unmatchedA)
  /\ results' = results
        \o [k \in 1..Len(finalUnmatchedB) |->
              Outcome(createKey(dataB[finalUnmatchedB[k]]),
                      0, finalUnmatchedB[k], NOT_IN_A, "none", FALSE, <<>>)]
        \o [k \in 1..Len(finalUnmatchedA) |->
              Outcome(createKey(dataA[finalUnmatchedA[k]]),
                      finalUnmatchedA[k], 0, NOT_IN_B, "none", FALSE, <<>>)]
  /\ pc' = "done"
  /\ UNCHANGED <<ingestVars, appVars>>
  /\ UNCHANGED <<dataA, dataB, mapB, unmatchedA, unmatchedB,
                 unmatchedBIndexes, finalUnmatchedA, idx>>

\* line 164 storing the B record under dataA
Pass3WrongSide ==
  /\ pc = "pass2"
  /\ idx > Len(unmatchedA)
  /\ results' = results
        \o [k \in 1..Len(finalUnmatchedA) |->
              Outcome(createKey(dataA[finalUnmatchedA[k]]),
                      finalUnmatchedA[k], 0, NOT_IN_B, "none", FALSE, <<>>)]
        \o [k \in 1..Len(finalUnmatchedB) |->
              Outcome(createKey(dataB[finalUnmatchedB[k]]),
                      finalUnmatchedB[k], 0, NOT_IN_A, "none", FALSE, <<>>)]
  /\ pc' = "done"
  /\ UNCHANGED <<ingestVars, appVars>>
  /\ UNCHANGED <<dataA, dataB, mapB, unmatchedA, unmatchedB,
                 unmatchedBIndexes, finalUnmatchedA, idx>>

\* lines 156-167: the unmatched rows, and the return
Pass3 ==
  /\ pc = "pass2"
  /\ idx > Len(unmatchedA)
  /\ results' = results
        \o [k \in 1..Len(finalUnmatchedA) |->
              Outcome(createKey(dataA[finalUnmatchedA[k]]),
                      finalUnmatchedA[k], 0, NOT_IN_B, "none", FALSE, <<>>)]
        \o [k \in 1..Len(finalUnmatchedB) |->
              Outcome(createKey(dataB[finalUnmatchedB[k]]),
                      0, finalUnmatchedB[k], NOT_IN_A, "none", FALSE, <<>>)]
  /\ pc' = "done"
  /\ UNCHANGED <<ingestVars, appVars>>
  /\ UNCHANGED <<dataA, dataB, mapB, unmatchedA, unmatchedB,
                 unmatchedBIndexes, finalUnmatchedA, idx>>

\* a call that finds the lookup of the call before it
CallAgainSharedMap ==
  /\ pc = "done"
  /\ results' = <<>>
  /\ unmatchedA' = <<>>
  /\ unmatchedB' = <<>>
  /\ unmatchedBIndexes' = {}
  /\ finalUnmatchedA' = <<>>
  /\ idx' = 1
  /\ pc' = "mapB"
  /\ UNCHANGED <<ingestVars, appVars>>
  /\ UNCHANGED <<dataA, dataB, mapB>>

\* reconcileFiles called again on the same fileAData and fileBData
\* (handleReconcile): results, mapB and the pools are new objects of the
\* call (lines 66, 67, 77, 103-107)
CallAgain ==
  /\ pc = "done"
  /\ mapB' = <<>>
  /\ results' = <<>>
  /\ unmatchedA' = <<>>
  /\ unmatchedB' = <<>>
  /\ unmatchedBIndexes' = {}
  /\ finalUnmatchedA' = <<>>
  /\ idx' = 1
  /\ pc' = "mapB"
  /\ UNCHANGED <<ingestVars, appVars>>
  /\ UNCHANGED <<dataA, dataB>>

Next ==
  \/ BuildMapB
  \/ StartPass1
  \/ Pass1Step
  \/ CollectUnmatchedB
  \/ Pass2Step
  \/ Pass3
  \/ CallAgain

Spec == Init /\ [][Next]_vars

Done == pc = "done"

(***************************************************************************)
(* Properties of reconcileFiles.                                           *)
(***************************************************************************)
Range(f) == {f[k] : k \in DOMAIN f}

OutcomesOfA(j) == {k \in DOMAIN results : results[k].a = j}

OutcomesOfB(j) == {k \in DOMAIN results : results[k].b = j}

Paired(r) == r.a # 0 /\ r.b # 0

DiffSet(r) == IF r.hasDiffs THEN Range(r.diffs) ELSE {}

\* C1 (as claimed): when reconcileFiles has returned, every record of A is
\* the dataA of exactly one outcome and every dataA is a record of A.
C1_CoverageA ==
  Done =>
    /\ \A j \in 1..Len(dataA) : Cardinality(OutcomesOfA(j)) = 1
    /\ \A k \in DOMAIN results : results[k].a \in 0..Len(dataA)

\* C2 (as claimed): when reconcileFiles has returned, every record of B is
\* the dataB of exactly one outcome and every dataB is a record of B.
C2_CoverageB ==
  Done =>
    /\ \A j \in 1..Len(dataB) : Cardinality(OutcomesOfB(j)) = 1
    /\ \A k \in DOMAIN results : results[k].b \in 0..Len(dataB)

\* C3: at every point of the run, no record of A is the dataA of two
\* outcomes and no record of B is the dataB of two outcomes.
C3_NoDoubleUse ==
  \A k1, k2 \in DOMAIN results :
    k1 # k2 =>
      /\ results[k1].a # 0 => results[k1].a # results[k2].a
      /\ results[k1].b # 0 => results[k1].b # results[k2].b

\* a finished run in which two A records have the same key: the first is
\* paired exactly, the second is paired by the second pass with another B
C3_Witness ==
  /\ Done
  /\ \E k1, k2 \in DOMAIN results :
       /\ results[k1].matchConfidence = "High"
       /\ results[k2].matchConfidence = "Low"
       /\ createKey(dataA[results[k1].a]) = createKey(dataA[results[k2].a])
       /\ results[k1].b # results[k2].b

C5_RemarkFollowsDiffSet ==
  \A k \in DOMAIN results :
    Paired(results[k]) =>
      /\ results[k].remark = MATCH <=>
           (results[k].matchConfidence = "High" /\ DiffSet(results[k]) = {})
      /\ (DiffSet(results[k]) # {} \/ results[k].matchConfidence = "Low")
           => results[k].remark = PARTIALLY_MATCHED

\* C5 (amended): a paired outcome is Match exactly when it is High and
\* 'taxable value' is not in its diff set, and Partially Matched otherwise;
\* Name and Invoice date differences do not change the remark.
C5_RemarkFollowsValueDiff ==
  \A k \in DOMAIN results :
    Paired(results[k]) =>
      /\ results[k].remark \in {MATCH, PARTIALLY_MATCHED}
      /\ results[k].remark = MATCH <=>
           /\ results[k].matchConfidence = "High"
           /\ "taxable value" \notin DiffSet(results[k])

\* a High outcome remarked Match although its diff set is not empty
C5_Witness ==
  \E k \in DOMAIN results :
    /\ results[k].matchConfidence = "High"
    /\ results[k].remark = MATCH
    /\ DiffSet(results[k]) # {}

SamePair(itemA, itemB) ==
  /\ NormField(itemA.GSTIN) = NormField(itemB.GSTIN)
  /\ NormField(itemA.inv) = NormField(itemB.inv)

PairNotEmpty(item) ==
  NormField(item.GSTIN) # <<>> \/ NormField(item.inv) # <<>>

\* the only record of `data` with the pair of `item`
OnlyPairIn(data, item) ==
  Cardinality({j \in 1..Len(data) : SamePair(data[j], item)}) = 1

\* the only record of `data` with the match key of `item`
OnlyKeyIn(data, item) ==
  Cardinality({j \in 1..Len(data) : createKey(data[j]) = createKey(item)}) = 1

ValuesWithinEpsilon(itemA, itemB) ==
  Abs(itemA.value - itemB.value) < ValueEpsilon

\* C6 (as claimed): if A and B each hold exactly one record with a given
\* normalized (gstin, invoiceNumber) pair and the values are within 0.001,
\* the result pairs the two as Match, High, with no diff set.
C6_ExactMatch ==
  Done =>
    \A i \in 1..Len(dataA), j \in 1..Len(dataB) :
      ( /\ SamePair(dataA[i], dataB[j])
        /\ OnlyPairIn(dataA, dataA[i])
        /\ OnlyPairIn(dataB, dataB[j])
        /\ ValuesWithinEpsilon(dataA[i], dataB[j]) )
      => \E k \in DOMAIN results :
           /\ results[k].a = i /\ results[k].b = j
           /\ results[k].remark = MATCH
           /\ results[k].matchConfidence = "High"
           /\ DiffSet(results[k]) = {}
           /\ ~results[k].hasDiffs

\* C6 (amended): if an A record and a B record have the same normalized
\* pair, not both fields empty, no other record of A or B has their match
\* key, and the values are within 0.001, the result pairs the two as Match,
\* High; the diff set holds at most Name and Invoice date, and is absent
\* exactly when it would be empty.
C6_ExactMatchByKey ==
  Done =>
    \A i \in 1..Len(dataA), j \in 1..Len(dataB) :
      ( /\ SamePair(dataA[i], dataB[j])
        /\ PairNotEmpty(dataA[i])
        /\ OnlyKeyIn(dataA, dataA[i])
        /\ OnlyKeyIn(dataB, dataB[j])
        /\ ValuesWithinEpsilon(dataA[i], dataB[j]) )
      => \E k \in DOMAIN results :
           /\ results[k].a = i /\ results[k].b = j
           /\ results[k].remark = MATCH
           /\ results[k].matchConfidence = "High"
           /\ Range(results[k].diffs) \subseteq {"Name", "Invoice date"}
           /\ results[k].hasDiffs <=> results[k].diffs # <<>>

\* a finished run with a Match that has no diff set, beside other outcomes
C6_Witness ==
  /\ Done
  /\ Len(results) >= 2
  /\ \E k \in DOMAIN results :
       /\ results[k].remark = MATCH
       /\ results[k].matchConfidence = "High"
       /\ ~results[k].hasDiffs
       /\ OnlyKeyIn(dataA, dataA[results[k].a])
       /\ OnlyKeyIn(dataB, dataB[results[k].b])

Pass2Turn == pc = "pass2" /\ idx <= Len(unmatchedA)

TurnItemA == dataA[unmatchedA[idx]]

SameGstin(itemA, itemB) == NormField(itemA.GSTIN) = NormField(itemB.GSTIN)

\* the available positions of unmatchedB holding a same-GSTIN record
SameGstinAvailable ==
  {i \in unmatchedBIndexes : SameGstin(TurnItemA, dataB[unmatchedB[i]])}

LastResult == results'[Len(results')]

\* C8: in a step of the second pass, if some available candidate has the
\* GSTIN of the A record and a similar name, the step emits a Partially
\* Matched / Low outcome pairing that A record with a B record, and does
\* not put it among the unmatched rows.
C8_FuzzyByName ==
  [][ ( /\ Pass2Turn
        /\ \E i \in SameGstinAvailable :
             areNamesSimilar(TurnItemA.Name, dataB[unmatchedB[i]].Name) )
      => /\ Len(results') = Len(results) + 1
         /\ LastResult.a = unmatchedA[idx]
         /\ LastResult.b # 0
         /\ LastResult.remark = PARTIALLY_MATCHED
         /\ LastResult.matchConfidence = "Low"
         /\ finalUnmatchedA' = finalUnmatchedA ]_vars

\* a finished run with a Low pair that agrees in name only: other invoice
\* number, values more than 1.00 apart, dates more than 7 days apart
C8_Witness ==
  /\ Done
  /\ \E k \in DOMAIN results :
       /\ results[k].matchConfidence = "Low"
       /\ LET itemA == dataA[results[k].a]
              itemB == dataB[results[k].b]
          IN /\ areNamesSimilar(itemA.Name, itemB.Name)
             /\ itemA.Name # itemB.Name
             /\ NormField(itemA.inv) # NormField(itemB.inv)
             /\ Abs(itemA.value - itemB.value) > ValueTolerance
             /\ ~areDatesClose(itemA.date, itemB.date)

\* C9: the two records of a Low outcome have the same trimmed, upper-cased
\* GSTIN.
C9_NoFuzzyAcrossGstin ==
  \A k \in DOMAIN results :
    results[k].matchConfidence = "Low" =>
      toUpperCase(trim(dataA[results[k].a].GSTIN))
        = toUpperCase(trim(dataB[results[k].b].GSTIN))

\* a finished run with a Low pair, and an A-only and a B-only row whose
\* records have different GSTINs and would score 2 or more
C9_Witness ==
  /\ Done
  /\ \E k \in DOMAIN results : results[k].matchConfidence = "Low"
  /\ \E ka, kb \in DOMAIN results :
       /\ results[ka].remark = NOT_IN_B
       /\ results[kb].remark = NOT_IN_A
       /\ ~SameGstin(dataA[results[ka].a], dataB[results[kb].b])
       /\ currentScore(dataA[results[ka].a], dataB[results[kb].b]) >= MinScore

\* the available same-GSTIN candidates that score 2 or more
Eligible ==
  {i \in SameGstinAvailable :
     currentScore(TurnItemA, dataB[unmatchedB[i]]) >= MinScore}

\* those of them with the highest score
TopEligible ==
  {i \in Eligible :
     \A j \in Eligible :
       currentScore(TurnItemA, dataB[unmatchedB[i]])
         >= currentScore(TurnItemA, dataB[unmatchedB[j]])}

\* C10 (as claimed): in a step of the second pass with eligible candidates,
\* the B record paired is the one that comes first in dataB among the
\* candidates with the highest score.
C10_TieBreakByInputOrder ==
  [][ (Pass2Turn /\ Eligible # {})
      => /\ Len(results') = Len(results) + 1
         /\ \E i \in TopEligible : LastResult.b = unmatchedB[i]
         /\ \A i \in TopEligible : LastResult.b <= unmatchedB[i] ]_vars

(***************************************************************************)
(* Shape and order of the result.                                          *)
(***************************************************************************)
AOnly(r) == r.a # 0 /\ r.b = 0

BOnly(r) == r.a = 0 /\ r.b # 0

\* C11 (as claimed): with an empty B, the result has exactly one outcome
\* per record of A, in the order of A, each holding only its A record,
\* remarked as present only in A, with no confidence.
C11_EmptyB ==
  (Done /\ dataB = <<>>) =>
    /\ Len(results) = Len(dataA)
    /\ \A k \in DOMAIN results :
         /\ results[k].a = k
         /\ results[k].b = 0
         /\ results[k].remark = NOT_IN_B
         /\ results[k].matchConfidence = "none"

\* the block of an outcome: 1 exact pairs, 2 fuzzy pairs, 3 A-only rows,
\* 4 B-only rows
Block(r) ==
  IF r.matchConfidence = "High" THEN 1
  ELSE IF r.matchConfidence = "Low" THEN 2
  ELSE IF r.a # 0 THEN 3
  ELSE 4

\* C12: at every point of the run the result is in block order (High, then
\* Low, then A-only, then B-only), and within the High block and within the
\* Low block the A records are in the order of A.
C12_OutcomeOrder ==
  \A k1, k2 \in DOMAIN results :
    k1 < k2 =>
      /\ Block(results[k1]) <= Block(results[k2])
      /\ (Block(results[k1]) = Block(results[k2]) /\ Block(results[k1]) <= 2)
           => results[k1].a < results[k2].a

\* a finished run with a fuzzy pair followed by an A-only row and a B-only
\* row, the fuzzy pair's A record coming after the A-only one in A
C12_Witness ==
  /\ Done
  /\ \E k1, k2, k3 \in DOMAIN results :
       /\ k1 < k2 /\ k2 < k3
       /\ results[k1].matchConfidence = "Low"
       /\ AOnly(results[k2])
       /\ BOnly(results[k3])
       /\ results[k2].a < results[k1].a

\* C13: no outcome lacks both records; an A-only remark goes with the A
\* record alone and a B-only remark with the B record alone, both without
\* confidence and diffs; confidence and diffs occur only on pairs.
C13_OutcomeShape ==
  \A k \in DOMAIN results :
    LET r == results[k]
    IN /\ r.a # 0 \/ r.b # 0
       /\ r.remark = NOT_IN_B =>
            (AOnly(r) /\ r.matchConfidence = "none" /\ ~r.hasDiffs)
       /\ r.remark = NOT_IN_A =>
            (BOnly(r) /\ r.matchConfidence = "none" /\ ~r.hasDiffs)
       /\ (r.matchConfidence # "none" \/ r.hasDiffs) => Paired(r)
       /\ ~Paired(r) => r.remark \in {NOT_IN_A, NOT_IN_B}

\* a finished run with an A-only row, a B-only row and a pair
C13_Witness ==
  /\ Done
  /\ \E k \in DOMAIN results : AOnly(results[k])
  /\ \E k \in DOMAIN results : BOnly(results[k])
  /\ \E k \in DOMAIN results : Paired(results[k]) /\ results[k].hasDiffs

\* a record with an empty GSTIN or an empty invoice number after trimming
HalfEmpty(item) ==
  trim(item.GSTIN) = <<>> \/ trim(item.inv) = <<>>

\* C14 (as claimed): no High outcome holds, on either side, a record whose
\* trimmed GSTIN or trimmed invoice number is empty.
C14_HalfEmptyNeverHigh ==
  \A k \in DOMAIN results :
    results[k].matchConfidence = "High" =>
      /\ ~HalfEmpty(dataA[results[k].a])
      /\ ~HalfEmpty(dataB[results[k].b])

(***************************************************************************)
(* Frame, labels and dates.                                                *)
(***************************************************************************)
FreshCall ==
  /\ pc = "mapB" /\ idx = 1
  /\ mapB = <<>> /\ results = <<>>
  /\ unmatchedA = <<>> /\ unmatchedB = <<>>
  /\ unmatchedBIndexes = {} /\ finalUnmatchedA = <<>>

\* C15: no step changes dataA or dataB (length, order, or any field of any
\* record), and the step that follows a return starts a call whose lookup,
\* pools and result are empty.
C15_InputsUnchanged ==
  [][ /\ dataA' = dataA
      /\ dataB' = dataB
      /\ Done => FreshCall' ]_vars

\* a finished call that built a lookup, paired records exactly and by the
\* second pass, and left an entry in the lookup
C15_Witness ==
  /\ Done
  /\ mapB # <<>>
  /\ \E k \in DOMAIN results : results[k].matchConfidence = "High"
  /\ \E k \in DOMAIN results : results[k].matchConfidence = "Low"

\* C16 (as claimed): a row holding only an A record is remarked 'In File B
\* only', a row holding only a B record 'In File A only'.
C16_LabelsInverted ==
  \A k \in DOMAIN results :
    /\ AOnly(results[k]) => results[k].remark = "In File B only"
    /\ BOnly(results[k]) => results[k].remark = "In File A only"

\* C16 (amended): a row holding only an A record is remarked 'In File A
\* only', a row holding only a B record 'In File B only'.
C16_LabelsNameTheFile ==
  \A k \in DOMAIN results :
    /\ AOnly(results[k]) => results[k].remark = "In File A only"
    /\ BOnly(results[k]) => results[k].remark = "In File B only"

\* a finished run with an A-only row and a B-only row of the same GSTIN
C16_Witness ==
  /\ Done
  /\ \E ka, kb \in DOMAIN results :
       /\ AOnly(results[ka])
       /\ BOnly(results[kb])
       /\ SameGstin(dataA[results[ka].a], dataB[results[kb].b])

DateUnusable(d) == d.k \in {"undefined", "null", "invalid"}

\* C17: in every run that has returned, for every A record and B record of
\* which one has an absent or unparseable date, date closeness is defined
\* and false, and the score is 2 for a similar name plus 1 for close values.
C17_DatesNeverAnError ==
  Done =>
    \A i \in 1..Len(dataA), j \in 1..Len(dataB) :
       (DateUnusable(dataA[i].date) \/ DateUnusable(dataB[j].date)) =>
         /\ areDatesClose(dataA[i].date, dataB[j].date) = FALSE
         /\ currentScore(dataA[i], dataB[j])
              = (IF areNamesSimilar(dataA[i].Name, dataB[j].Name)
                 THEN 2 ELSE 0)
              + (IF Abs(dataA[i].value - dataB[j].value) <= ValueTolerance
                 THEN 1 ELSE 0)

\* a finished run with a fuzzy pair one date of which is unusable, and a
\* row of a record with an absent date
C17_Witness ==
  /\ Done
  /\ \E k \in DOMAIN results :
       /\ results[k].matchConfidence = "Low"
       /\ ~DateUnusable(dataA[results[k].a].date)
       /\ DateUnusable(dataB[results[k].b].date)
  /\ \E k \in DOMAIN results :
       /\ results[k].a # 0
       /\ dataA[results[k].a].date.k = "null"

(***************************************************************************)
(* Duplicate keys.                                                         *)
(***************************************************************************)
KeyInB(key) == \E j \in 1..Len(dataB) : createKey(dataB[j]) = key

FirstOfKeyInA(i) ==
  \A i2 \in 1..(i - 1) : createKey(dataA[i2]) # createKey(dataA[i])

HighOf(i) ==
  {k \in DOMAIN results :
     results[k].a = i /\ results[k].matchConfidence = "High"}

\* C18: once the first pass is over, of the A records with a valid key that
\* B holds, the first with that key is paired High with a B record of that
\* key, and every later one has no High outcome and is in the pool of the
\* second pass.
C18_FirstAWins ==
  pc \in {"pass2", "done"} =>
    \A i \in 1..Len(dataA) :
      (createKey(dataA[i]) # <<"-">> /\ KeyInB(createKey(dataA[i]))) =>
        IF FirstOfKeyInA(i)
        THEN \E k \in HighOf(i) :
               createKey(dataB[results[k].b]) = createKey(dataA[i])
        ELSE /\ HighOf(i) = {}
             /\ \E n \in DOMAIN unmatchedA : unmatchedA[n] = i

\* a finished run in which the first of two A records of one key is paired
\* High and the second ends as an A-only row
C18_Witness ==
  /\ Done
  /\ \E k1, k2 \in DOMAIN results :
       /\ results[k1].matchConfidence = "High"
       /\ AOnly(results[k2])
       /\ results[k1].a < results[k2].a
       /\ createKey(dataA[results[k1].a]) = createKey(dataA[results[k2].a])

\* a B record whose valid key a later B record has too
Shadowed(j) ==
  /\ createKey(dataB[j]) # <<"-">>
  /\ \E j2 \in (j + 1)..Len(dataB) : createKey(dataB[j2]) = createKey(dataB[j])

\* C19: in every run that has returned, a B record whose valid key a later
\* B record has too is in no outcome, so of the B records of one key only
\* the last can be in an outcome.
C19_LastDuplicateWins ==
  Done => \A j \in 1..Len(dataB) : Shadowed(j) => OutcomesOfB(j) = {}

\* a finished run in which B holds a key twice, with different records, and
\* the last of them is in an outcome
C19_Witness ==
  /\ Done
  /\ \E j1, j2 \in 1..Len(dataB) :
       /\ j1 < j2
       /\ createKey(dataB[j1]) = createKey(dataB[j2])
       /\ dataB[j1] # dataB[j2]
       /\ ~Shadowed(j2)
       /\ OutcomesOfB(j2) # {}

(***************************************************************************)
(* Selection in the second pass.                                           *)
(***************************************************************************)
NameSignal(itemA, itemB) == areNamesSimilar(itemA.Name, itemB.Name)

ValueSignal(itemA, itemB) == Abs(itemA.value - itemB.value) <= ValueTolerance

DateSignal(itemA, itemB) == areDatesClose(itemA.date, itemB.date)

\* 2 x (name similar) + (value close) + (date close)
SignalScore(itemA, itemB) ==
    (IF NameSignal(itemA, itemB) THEN 2 ELSE 0)
  + (IF ValueSignal(itemA, itemB) THEN 1 ELSE 0)
  + (IF DateSignal(itemA, itemB) THEN 1 ELSE 0)

\* C20: in a step of the second pass, either a pair is emitted, with an
\* available B record of the A record's GSTIN whose score is at least 2 and
\* that no other such candidate exceeds, or the A record joins the final
\* unmatched A records; it joins them exactly when no available candidate
\* of its GSTIN has a similar name or both close value and close date.
C20_FuzzySelection ==
  [][ Pass2Turn =>
        /\ Len(results') = Len(results) + 1
             => /\ \E i \in SameGstinAvailable : unmatchedB[i] = LastResult.b
                /\ LastResult.a = unmatchedA[idx]
                /\ SignalScore(TurnItemA, dataB[LastResult.b]) >= 2
                /\ \A j \in SameGstinAvailable :
                     SignalScore(TurnItemA, dataB[unmatchedB[j]])
                       <= SignalScore(TurnItemA, dataB[LastResult.b])
                /\ finalUnmatchedA' = finalUnmatchedA
        /\ Len(results') # Len(results) + 1
             => /\ results' = results
                /\ finalUnmatchedA' = Append(finalUnmatchedA, unmatchedA[idx])
        /\ results' = results
             <=> ~ \E i \in SameGstinAvailable :
                     \/ NameSignal(TurnItemA, dataB[unmatchedB[i]])
                     \/ /\ ValueSignal(TurnItemA, dataB[unmatchedB[i]])
                        /\ DateSignal(TurnItemA, dataB[unmatchedB[i]])
    ]_vars

\* a finished run in which an A record was paired with a candidate of
\* score 4 although a candidate of score 2 came before it in the pool
C20_Witness ==
  /\ Done
  /\ \E k, kb \in DOMAIN results :
       /\ results[k].matchConfidence = "Low"
       /\ BOnly(results[kb])
       /\ results[kb].b < results[k].b
       /\ SameGstin(dataA[results[k].a], dataB[results[kb].b])
       /\ SignalScore(dataA[results[k].a], dataB[results[kb].b]) = 2
       /\ SignalScore(dataA[results[k].a], dataB[results[k].b]) = 4

(***************************************************************************)
(* The diff set of paired outcomes.                                        *)
(***************************************************************************)
SameCalendarDay(dA, dB) ==
  /\ ~DateUnusable(dA)
  /\ ~DateUnusable(dB)
  /\ dA.t \div MsPerDay = dB.t \div MsPerDay

\* C21 (as claimed): every paired outcome has 'Invoice date' in its diff set
\* unless both dates are valid dates of the same calendar day; a pair of two
\* absent or unparseable dates has it.
C21_InvoiceDateDiff ==
  \A k \in DOMAIN results :
    Paired(results[k]) =>
      ("Invoice date" \in DiffSet(results[k])
         <=> ~SameCalendarDay(dataA[results[k].a].date,
                              dataB[results[k].b].date))

(***************************************************************************)
(* Records whose GSTIN or invoice number holds the separator of the key.   *)
(***************************************************************************)
\* GSTIN 'A-B', invoice 'C': key 'A-B-C'
RecDashGstin ==
  Rec(<<"A","-","B">>, <<"A","c","m","e">>, <<"C">>, DateAt(0), 1000000)

\* GSTIN 'A', invoice 'B-C': key 'A-B-C'
RecDashInv ==
  Rec(<<"A">>, <<"A","c","m","e">>, <<"B","-","C">>, DateAt(0), 1000000)

\* GSTIN 'A', invoice 'C'
RecPlain ==
  Rec(<<"A">>, <<"A","c","m","e">>, <<"C">>, DateAt(0), 1000000)

RecordsDash == {RecDashGstin, RecDashInv, RecPlain, RecFar}

InitDash ==
  /\ \E la \in 0..MaxA : \E lb \in 0..MaxA :
        /\ dataA \in [1..la -> RecordsDash]
        /\ dataB \in [1..lb -> RecordsDash]
  /\ mapB = <<>>
  /\ results = <<>>
  /\ unmatchedA = <<>>
  /\ unmatchedB = <<>>
  /\ unmatchedBIndexes = {}
  /\ finalUnmatchedA = <<>>
  /\ NoIngest
  /\ NoApp
  /\ idx = 1
  /\ pc = "mapB"

SpecDash == InitDash /\ [][Next]_vars

\* C22 (as claimed): every High outcome pairs two records with equal
\* normalized GSTINs and equal normalized invoice numbers, and its diff set
\* holds neither 'GSTIN' nor 'Invoice no.'.
C22_HighImpliesEqualFields ==
  \A k \in DOMAIN results :
    results[k].matchConfidence = "High" =>
      /\ NormField(dataA[results[k].a].GSTIN)
           = NormField(dataB[results[k].b].GSTIN)
      /\ NormField(dataA[results[k].a].inv)
           = NormField(dataB[results[k].b].inv)
      /\ "GSTIN" \notin DiffSet(results[k])
      /\ "Invoice no." \notin DiffSet(results[k])

(***************************************************************************)
(* The thresholds in IEEE-754 double arithmetic.  A taxable value is the   *)
(* double that parseFloat gives for a decimal text (excelService.ts line   *)
(* 158); valA - valB is the double nearest the exact difference.  A        *)
(* non-negative number below 4 is written as Width bits, the first of      *)
(* weight 2, the last of weight 2^-70; a double is such a number with at   *)
(* most Mantissa significant bits.  Values are in units of 0.0001, from 0  *)
(* to 3.9999.                                                              *)
(***************************************************************************)
Width == 72

Mantissa == 53

\* bits of the numerator of n / 10000 scaled by 2^70: n on 16 bits, then 70
\* zeros
NumeratorLen == Width + 14

RECURSIVE Pow2(_)
Pow2(k) == IF k = 0 THEN 1 ELSE 2 * Pow2(k - 1)

\* 2^k modulo 10000
RECURSIVE Pow2Mod(_)
Pow2Mod(k) ==
  IF k = 0 THEN 1
  ELSE IF k % 2 = 0 THEN (Pow2Mod(k \div 2) * Pow2Mod(k \div 2)) % 10000
  ELSE (2 * Pow2Mod(k - 1)) % 10000

NumeratorBit(n, i) == IF i <= 16 THEN (n \div Pow2(16 - i)) % 2 ELSE 0

\* the remainder of long division by 10000 after i bits of the numerator
Remainder(n, i) ==
  IF i <= 16 THEN (n \div Pow2(16 - i)) % 10000
  ELSE ((n % 10000) * Pow2Mod(i - 16)) % 10000

\* the bits of the quotient of long division by 10000
Quotient(n) ==
  [i \in 1..NumeratorLen |->
     IF 2 * Remainder(n, i - 1) + NumeratorBit(n, i) >= 10000 THEN 1 ELSE 0]

\* position of the first 1, or 0
Leading(bits) ==
  IF \A k \in 1..Len(bits) : bits[k] = 0 THEN 0
  ELSE CHOOSE k \in 1..Len(bits) :
         bits[k] = 1 /\ \A k2 \in 1..(k - 1) : bits[k2] = 0

\* bits + one unit at position pos: the carry runs up to the nearest 0
Increment(bits, pos) ==
  LET zeros == {k \in 1..pos : bits[k] = 0 /\ \A k2 \in (k + 1)..pos : bits[k2] = 1}
      z == IF zeros = {} THEN 0 ELSE CHOOSE k \in zeros : TRUE
  IN [k \in 1..Len(bits) |->
        IF k = z THEN 1 ELSE IF k > z /\ k <= pos THEN 0 ELSE bits[k]]

\* round to nearest, ties to even, to Mantissa significant bits; sticky
\* says that the exact number has something below the last bit of bits
RoundToDouble(bits, sticky) ==
  LET p == Leading(bits)
      last == p + Mantissa - 1
  IN IF p = 0 \/ last >= Len(bits) THEN bits
     ELSE LET guard == bits[last + 1]
              rest == sticky \/ \E k \in (last + 2)..Len(bits) : bits[k] = 1
              kept == [k \in 1..Len(bits) |-> IF k <= last THEN bits[k] ELSE 0]
          IN IF guard = 1 /\ (rest \/ bits[last] = 1)
             THEN Increment(kept, last)
             ELSE kept

\* parseFloat of the decimal text of n / 10000
ToDouble(n) ==
  RoundToDouble(SubSeq(Quotient(n), NumeratorLen - Width + 1, NumeratorLen),
                Remainder(n, NumeratorLen) # 0)

\* x < y: the first bit that differs decides
LessBits(x, y) ==
  \E k \in 1..Len(x) :
    /\ x[k] < y[k]
    /\ \A k2 \in 1..(k - 1) : x[k2] = y[k2]

\* the borrow into position i of x - y: the nearest lower bit that differs
\* decides
Borrow(x, y, i) ==
  IF \E k \in (i + 1)..Len(x) :
       x[k] < y[k] /\ \A k2 \in (i + 1)..(k - 1) : x[k2] = y[k2]
  THEN 1 ELSE 0

\* x - y for x >= y
SubBits(x, y) ==
  [i \in 1..Len(x) |-> (x[i] - y[i] - Borrow(x, y, i) + 2) % 2]

\* Math.abs(valA - valB)
AbsDiffDouble(x, y) ==
  IF LessBits(x, y)
  THEN RoundToDouble(SubBits(y, x), FALSE)
  ELSE RoundToDouble(SubBits(x, y), FALSE)

\* line 25, tolerance = 1.0
areValuesCloseDouble(valA, valB) ==
  ~LessBits(ToDouble(ValueTolerance),
            AbsDiffDouble(ToDouble(valA), ToDouble(valB)))

\* line 29, 0.001 being the double nearest to it
areValuesEqualDouble(valA, valB) ==
  LessBits(AbsDiffDouble(ToDouble(valA), ToDouble(valB)),
           ToDouble(ValueEpsilon))

(***************************************************************************)
(* The three threshold tests applied to one pair of records whose values   *)
(* and dates lie on and next to the thresholds.                            *)
(***************************************************************************)
\* 1.000, 1.001, 2.000, 2.001, 2.002
ThresholdValues == {10000, 10010, 20000, 20010, 20020}

\* a day, the day 7 days later, one millisecond after that, no date
ThresholdDates ==
  {DateAt(0), DateAt(7 * MsPerDay), DateAt(7 * MsPerDay + 1),
   DateInvalid, DateNull}

ThresholdRecords ==
  {Rec(<<"G","1">>, <<"A","c","m","e">>, <<"I","1">>, d, v) :
     d \in ThresholdDates, v \in ThresholdValues}

InitThreshold ==
  /\ \E a \in ThresholdRecords, b \in ThresholdRecords :
        /\ dataA = <<a>>
        /\ dataB = <<b>>
  /\ mapB = <<>>
  /\ results = <<>>
  /\ unmatchedA = <<>>
  /\ unmatchedB = <<>>
  /\ unmatchedBIndexes = {}
  /\ finalUnmatchedA = <<>>
  /\ NoIngest
  /\ NoApp
  /\ idx = 1
  /\ pc = "thresholds"

\* areValuesClose, areValuesEqual and areDatesClose called on the pair
ApplyThresholds ==
  /\ pc = "thresholds"
  /\ results' =
       <<[valuesClose |-> areValuesCloseDouble(dataA[1].value, dataB[1].value),
          valuesEqual |-> areValuesEqualDouble(dataA[1].value, dataB[1].value),
          datesClose  |-> areDatesClose(dataA[1].date, dataB[1].date)]>>
  /\ pc' = "done"
  /\ UNCHANGED <<ingestVars, appVars>>
  /\ UNCHANGED <<dataA, dataB, mapB, unmatchedA, unmatchedB,
                 unmatchedBIndexes, finalUnmatchedA, idx>>

SpecThreshold == InitThreshold /\ [][ApplyThresholds]_vars

\* C23 (as claimed): values are close exactly when they are at most 1.0
\* apart, the taxable value differs exactly when the values are at least
\* 0.001 apart, and dates are close exactly when both parse and are at most
\* 7 days apart (values in units of 0.0001, dates in milliseconds).
C23_ThresholdBoundaries ==
  Done =>
    LET a == dataA[1]
        b == dataB[1]
    IN /\ results[1].valuesClose <=> Abs(a.value - b.value) <= 10000
       /\ ~results[1].valuesEqual <=> Abs(a.value - b.value) >= 10
       /\ results[1].datesClose
            <=> /\ a.date.k = "date"
                /\ b.date.k = "date"
                /\ Abs(a.date.t - b.date.t) <= 7 * 86400000

(***************************************************************************)
(* Ingestion: aggregateInvoiceData (excelService.ts lines 26-54) run on    *)
(* the rows of file A, then on the rows of file B, and reconcileFiles on   *)
(* the two results, as readExcelFile, handleMappingConfirm and             *)
(* handleReconcile chain them.                                             *)
(***************************************************************************)
MaxRows == 2

\* two rows of the pair (G1, I1) written differently, a row of another
\* invoice of G1, two rows whose keys collide, a row without GSTIN
IngestRows ==
  {RecAcme, RecZed, RecFar, RecDashGstin, RecDashInv, RecNoGstin}

InitIngest ==
  /\ \E la \in 0..MaxRows : \E lb \in 0..MaxRows :
        \E rowsA \in [1..la -> IngestRows], rowsB \in [1..lb -> IngestRows] :
          rawData = [k \in FileKeys |-> IF k = "A" THEN rowsA ELSE rowsB]
  /\ aggregationMap = <<>>
  /\ dataA = <<>>
  /\ dataB = <<>>
  /\ mapB = <<>>
  /\ results = <<>>
  /\ unmatchedA = <<>>
  /\ unmatchedB = <<>>
  /\ unmatchedBIndexes = {}
  /\ finalUnmatchedA = <<>>
  /\ NoApp
  /\ idx = 1
  /\ pc = "aggregateA"

\* the file whose rows are being aggregated
AggregateKey == IF pc = "aggregateA" THEN "A" ELSE "B"

\* existingEntry['taxable value'] += item['taxable value'] (line 46)
AddValue(m, key, value) ==
  [k \in 1..Len(m) |->
     IF m[k].key = key
     THEN [m[k] EXCEPT !.item.value = m[k].item.value + value]
     ELSE m[k]]

\* an aggregation that keeps rows without GSTIN or invoice number
RowIsKeptAlways(gstin, invoiceNo) == TRUE

\* the negation of the test of line 37
RowIsKept(gstin, invoiceNo) == gstin # <<>> /\ invoiceNo # <<>>

\* an aggregation that sets a new entry for every row
AggregateEntryNoGrouping(m, key, item) ==
  Append(m, [key |-> key, item |-> item])

\* lines 43-50: add to the entry of the key, or set a copy of the row
AggregateEntry(m, key, item) ==
  IF MapHas(m, key)
  THEN AddValue(m, key, item.value)
  ELSE Append(m, [key |-> key, item |-> item])

\* data.forEach(item => ...) of lines 33-51, one row
AggregateStep ==
  /\ pc \in {"aggregateA", "aggregateB"}
  /\ idx <= Len(rawData[AggregateKey])
  /\ LET item == rawData[AggregateKey][idx]
         gstin == NormField(item.GSTIN)
         invoiceNo == NormField(item.inv)
         key == gstin \o <<"-">> \o invoiceNo
     IN aggregationMap' =
          IF RowIsKept(gstin, invoiceNo)
          THEN AggregateEntry(aggregationMap, key, item)
          ELSE aggregationMap
  /\ idx' = idx + 1
  /\ UNCHANGED <<dataA, dataB, mapB, results, unmatchedA, unmatchedB,
                 unmatchedBIndexes, finalUnmatchedA, pc>>
  /\ UNCHANGED <<rawData, appVars>>

\* Array.from(aggregationMap.values()) of line 53
aggregatedData == [k \in 1..Len(aggregationMap) |-> aggregationMap[k].item]

\* line 53 and readExcelFile lines 172-173: the result becomes the data of
\* the file; handleMappingConfirm (part_001 lines 175-177) throws on an
\* empty result, and the file is then never reconciled
AggregateReturn ==
  /\ pc \in {"aggregateA", "aggregateB"}
  /\ idx > Len(rawData[AggregateKey])
  /\ IF pc = "aggregateA"
     THEN dataA' = aggregatedData /\ UNCHANGED dataB
     ELSE dataB' = aggregatedData /\ UNCHANGED dataA
  /\ aggregationMap' = <<>>
  /\ idx' = 1
  /\ pc' = IF aggregatedData = <<>> THEN "error"
           ELSE IF pc = "aggregateA" THEN "aggregateB" ELSE "mapB"
  /\ UNCHANGED <<mapB, results, unmatchedA, unmatchedB,
                 unmatchedBIndexes, finalUnmatchedA>>
  /\ UNCHANGED <<rawData, appVars>>

NextIngest ==
  \/ AggregateStep
  \/ AggregateReturn
  \/ BuildMapB
  \/ StartPass1
  \/ Pass1Step
  \/ CollectUnmatchedB
  \/ Pass2Step
  \/ Pass3
  \/ CallAgain

SpecIngest == InitIngest /\ [][NextIngest]_vars

BothFields(item) ==
  NormField(item.GSTIN) # <<>> /\ NormField(item.inv) # <<>>

\* the positions of the rows that are the first of their normalized pair,
\* among the rows with both fields, in order
FirstsOfPairs(rows) ==
  SelectSeq([i \in 1..Len(rows) |-> i],
            LAMBDA i : /\ BothFields(rows[i])
                       /\ \A j \in 1..(i - 1) : ~SamePair(rows[j], rows[i]))

\* the sum of the values of the rows at the positions S
RECURSIVE SumOfValues(_, _)
SumOfValues(rows, S) ==
  IF S = {} THEN 0
  ELSE LET i == CHOOSE i \in S : TRUE
       IN rows[i].value + SumOfValues(rows, S \ {i})

\* the forEach of aggregateInvoiceData is over: aggregatedData is what the
\* call returns
AggregateOver ==
  /\ pc \in {"aggregateA", "aggregateB"}
  /\ idx > Len(rawData[AggregateKey])

\* C24 (as claimed): aggregateInvoiceData returns, in order of first
\* occurrence, one record per normalized (GSTIN, invoice number) pair of the
\* rows that have both fields, its value the sum of the values of exactly
\* the rows of that pair, and no step changes the rows.
C24_AggregationByPair ==
  /\ [](AggregateOver =>
          LET rows == rawData[AggregateKey]
              firsts == FirstsOfPairs(rows)
          IN /\ Len(aggregatedData) = Len(firsts)
             /\ \A n \in 1..Len(firsts) :
                  /\ n <= Len(aggregatedData)
                  /\ SamePair(aggregatedData[n], rows[firsts[n]])
                  /\ aggregatedData[n].value =
                       SumOfValues(rows,
                         {i \in 1..Len(rows) :
                            SamePair(rows[i], rows[firsts[n]])}))
  /\ [][rawData' = rawData]_vars

\* C25: when reconcileFiles has returned on two results of
\* aggregateInvoiceData, every record of A is the dataA of exactly one
\* outcome, every record of B the dataB of exactly one outcome, and the
\* number of outcomes is |A| + |B| less the number of paired outcomes.
C25_CoverageOfIngested ==
  Done =>
    /\ \A j \in 1..Len(dataA) : Cardinality(OutcomesOfA(j)) = 1
    /\ \A j \in 1..Len(dataB) : Cardinality(OutcomesOfB(j)) = 1
    /\ \A k \in DOMAIN results :
         /\ results[k].a \in 0..Len(dataA)
         /\ results[k].b \in 0..Len(dataB)
    /\ Len(results) = Len(dataA) + Len(dataB)
         - Cardinality({k \in DOMAIN results : Paired(results[k])})

\* a finished run on files of which B had two rows of one pair, with an
\* exact pair and a record left alone
C25_Witness ==
  /\ Done
  /\ Len(dataB) < Len(rawData["B"])
  /\ \A i \in 1..Len(rawData["B"]) : BothFields(rawData["B"][i])
  /\ \E k \in DOMAIN results : results[k].matchConfidence = "High"
  /\ \E k \in DOMAIN results : AOnly(results[k])

(***************************************************************************)
(* The pools of the second pass.                                           *)
(***************************************************************************)
\* C26: during the second pass no available B candidate has the match key
\* of an A record of the pool, and at every point a Low outcome has
\* 'Invoice no.' in its diff set and not 'GSTIN'.
C26_FuzzyPairsDifferInInvoiceNo ==
  /\ pc = "pass2" =>
       \A n \in DOMAIN unmatchedA, i \in unmatchedBIndexes :
         createKey(dataA[unmatchedA[n]]) # createKey(dataB[unmatchedB[i]])
  /\ \A k \in DOMAIN results :
       results[k].matchConfidence = "Low" =>
         /\ "Invoice no." \in DiffSet(results[k])
         /\ "GSTIN" \notin DiffSet(results[k])

\* the turn of the second A record of the pool, after a Low outcome, with a
\* candidate of its GSTIN still available
C26_Witness ==
  /\ Pass2Turn
  /\ idx = 2
  /\ SameGstinAvailable # {}
  /\ \E k \in DOMAIN results : results[k].matchConfidence = "Low"

(***************************************************************************)
(* The App component (src/unnamed/part_001 lines 107-235).  A file is a    *)
(* number from 1 to MaxFiles; fileData[k] is the file the data of slot k   *)
(* was read from, 0 for null.  A call of handleFileSelect or               *)
(* handleMappingConfirm that is waiting for its request is a record of     *)
(* the fileKey and file it closed over.  pc is "upload" while the upload   *)
(* view is shown and nothing is running, "reconciling" while isLoading,    *)
(* "results" while results is set.  The modal covers the page, so the      *)
(* user reaches the slots and the buttons only while it is not shown.      *)
(***************************************************************************)
MaxFiles == 2

Files == 1..MaxFiles

MappingClosed == [isOpen |-> FALSE, fileKey |-> "null", file |-> 0]

\* mappingState.isOpen && mappingState.file (line 283)
ModalShown == mappingState.isOpen /\ mappingState.file # 0

\* FileUpload shows the card with the Remove button (part_000 line 76)
CardShown(k) == file[k] # 0 /\ fileStatus[k] # "idle"

InitApp ==
  /\ NoApp
  /\ NoIngest
  /\ dataA = <<>>
  /\ dataB = <<>>
  /\ mapB = <<>>
  /\ results = <<>>
  /\ unmatchedA = <<>>
  /\ unmatchedB = <<>>
  /\ unmatchedBIndexes = {}
  /\ finalUnmatchedA = <<>>
  /\ idx = 1
  /\ pc = "upload"

engineVars == <<dataA, dataB, mapB, results, unmatchedA, unmatchedB,
                unmatchedBIndexes, finalUnmatchedA, idx>>

\* handleFileSelect(f, k) up to its first await (lines 143-149)
SelectFile ==
  /\ pc # "results"
  /\ ~ModalShown
  /\ \E k \in FileKeys, f \in Files :
       /\ ~CardShown(k)
       /\ file' = [file EXCEPT ![k] = f]
       /\ fileStatus' = [fileStatus EXCEPT ![k] = "loading"]
       /\ selectCalls' = selectCalls \cup {[fileKey |-> k, file |-> f]}
  /\ UNCHANGED <<fileData, mappingState, confirmCalls, pc>>
  /\ UNCHANGED <<engineVars, ingestVars>>

\* handleRemoveFile: handleFileSelect(null, k) (lines 130-141)
RemoveFile ==
  /\ pc # "results"
  /\ ~ModalShown
  /\ \E k \in FileKeys :
       /\ CardShown(k)
       /\ file' = [file EXCEPT ![k] = 0]
       /\ fileStatus' = [fileStatus EXCEPT ![k] = "idle"]
       /\ fileData' = [fileData EXCEPT ![k] = 0]
  /\ UNCHANGED <<mappingState, selectCalls, confirmCalls, pc>>
  /\ UNCHANGED <<engineVars, ingestVars>>

\* readExcelHeaders and getColumnMapping resolve (lines 150-159)
HeadersResolved ==
  /\ \E c \in selectCalls :
       /\ mappingState' = [isOpen |-> TRUE, fileKey |-> c.fileKey,
                           file |-> c.file]
       /\ selectCalls' = selectCalls \ {c}
  /\ UNCHANGED <<file, fileStatus, fileData, confirmCalls, pc>>
  /\ UNCHANGED <<engineVars, ingestVars>>

\* one of them rejects (lines 160-163)
HeadersRejected ==
  /\ \E c \in selectCalls :
       /\ fileStatus' = [fileStatus EXCEPT ![c.fileKey] = "error"]
       /\ selectCalls' = selectCalls \ {c}
  /\ UNCHANGED <<file, fileData, mappingState, confirmCalls, pc>>
  /\ UNCHANGED <<engineVars, ingestVars>>

\* handleMappingConfirm up to its await (lines 166-174)
MappingConfirm ==
  /\ ModalShown
  /\ mappingState.fileKey # "null"
  /\ confirmCalls' = confirmCalls \cup
       {[fileKey |-> mappingState.fileKey, file |-> mappingState.file]}
  /\ UNCHANGED <<file, fileStatus, fileData, mappingState, selectCalls, pc>>
  /\ UNCHANGED <<engineVars, ingestVars>>

\* readExcelFile resolves with data (lines 176, 180-181, 185-187)
ReadResolved ==
  /\ \E c \in confirmCalls :
       /\ fileData' = [fileData EXCEPT ![c.fileKey] = c.file]
       /\ fileStatus' = [fileStatus EXCEPT ![c.fileKey] = "processed"]
       /\ confirmCalls' = confirmCalls \ {c}
  /\ mappingState' = MappingClosed
  /\ UNCHANGED <<file, selectCalls, pc>>
  /\ UNCHANGED <<engineVars, ingestVars>>

\* readExcelFile rejects or gives no data (lines 176-179, 182-187)
ReadRejected ==
  /\ \E c \in confirmCalls :
       /\ fileStatus' = [fileStatus EXCEPT ![c.fileKey] = "error"]
       /\ confirmCalls' = confirmCalls \ {c}
  /\ mappingState' = MappingClosed
  /\ UNCHANGED <<file, fileData, selectCalls, pc>>
  /\ UNCHANGED <<engineVars, ingestVars>>

\* handleMappingCancel (lines 188-198)
MappingCancel ==
  /\ ModalShown
  /\ IF mappingState.fileKey \in FileKeys
     THEN /\ file' = [file EXCEPT ![mappingState.fileKey] = 0]
          /\ fileStatus' = [fileStatus EXCEPT ![mappingState.fileKey] = "idle"]
     ELSE UNCHANGED <<file, fileStatus>>
  /\ mappingState' = MappingClosed
  /\ UNCHANGED <<fileData, selectCalls, confirmCalls, pc>>
  /\ UNCHANGED <<engineVars, ingestVars>>

\* the Reconcile button (line 271) and handleReconcile up to setTimeout
\* (lines 200-208)
ReconcileClicked ==
  /\ pc = "upload"
  /\ ~ModalShown
  /\ \A k \in FileKeys : fileStatus[k] = "processed"
  /\ \A k \in FileKeys : fileData[k] # 0
  /\ pc' = "reconciling"
  /\ UNCHANGED appVars
  /\ UNCHANGED <<engineVars, ingestVars>>

\* the timer of lines 211-222 fires: reconcileFiles(fileAData, fileBData)
ReconcileDone ==
  /\ pc = "reconciling"
  /\ pc' = "results"
  /\ UNCHANGED appVars
  /\ UNCHANGED <<engineVars, ingestVars>>

\* handleReset (lines 225-235)
ResetClicked ==
  /\ pc = "results"
  /\ ~ModalShown
  /\ file' = [k \in FileKeys |-> 0]
  /\ fileData' = [k \in FileKeys |-> 0]
  /\ fileStatus' = [k \in FileKeys |-> "idle"]
  /\ pc' = "upload"
  /\ UNCHANGED <<mappingState, selectCalls, confirmCalls>>
  /\ UNCHANGED <<engineVars, ingestVars>>

NextApp ==
  \/ SelectFile
  \/ RemoveFile
  \/ HeadersResolved
  \/ HeadersRejected
  \/ MappingConfirm
  \/ ReadResolved
  \/ ReadRejected
  \/ MappingCancel
  \/ ReconcileClicked
  \/ ReconcileDone
  \/ ResetClicked

SpecApp == InitApp /\ [][NextApp]_vars

\* C27 (as claimed): a slot whose status is 'loading' has a request pending
\* or the mapping modal open for it.
C27_LoadingIsResolvable ==
  \A k \in FileKeys :
    fileStatus[k] = "loading" =>
      \/ \E c \in selectCalls \cup confirmCalls : c.fileKey = k
      \/ ModalShown /\ mappingState.fileKey = k

\* C28 (as claimed): a slot whose status is 'processed' has a selected file
\* and its data was read from that file, and reconcileFiles runs only on
\* the data of the two selected files.
C28_ProcessedIsCurrent ==
  /\ \A k \in FileKeys :
       fileStatus[k] = "processed" =>
         file[k] # 0 /\ fileData[k] = file[k]
  /\ pc = "reconciling" =>
       \A k \in FileKeys : file[k] # 0 /\ fileData[k] = file[k]

====
